---------------------------- MODULE Spec2Model ----------------------------
(***************************************************************************)
(* A model of gmuv (github-md-url-check), src/main.go: RunCLI starts one   *)
(* CheckGitMdLinks goroutine per repository; each downloads the            *)
(* repository's zip archive, signals and waits on a sync.WaitGroup, walks  *)
(* the archive's markdown files, validates every link and sends an         *)
(* MdReport on the reports channel.                                        *)
(*                                                                         *)
(* Go strings whose characters the code inspects (archive entry names,     *)
(* link targets) are sequences of one-character strings.  Strings the code *)
(* only concatenates (the repository's HTML URL, its default branch) are   *)
(* single opaque elements of such a sequence.                              *)
(***************************************************************************)
EXTENDS Integers, Sequences, FiniteSets, TLC

(***************************************************************************)
(* Bounds of the model.                                                    *)
(***************************************************************************)
\* Number of repositories GetPublicRepos returned (reposNumber).
NumRepos == 2
\* Largest number of consecutive 429 answers the remote gives to one link.
MaxRetries == 2

(***************************************************************************)
(* Program constants.                                                      *)
(***************************************************************************)
\* main.go:129, 169 -- http.StatusTooManyRequests
TooManyRequests == 429
\* main.go:173 -- first status reported as [ERR]
ErrStatusFrom == 400
\* main.go:126 -- seconds slept before a retry
CoolDown == 60

(***************************************************************************)
(* strings package                                                         *)
(***************************************************************************)
\* strings.Index(s, sep): 0-based index of the first occurrence, or -1.
Index(s, sep) ==
    LET hits == {i \in 0..(Len(s) - Len(sep)) :
                     SubSeq(s, i + 1, i + Len(sep)) = sep}
    IN  IF hits = {} THEN -1
        ELSE CHOOSE i \in hits : \A j \in hits : i <= j

\* strings.Contains(s, sub)
Contains(s, sub) == Index(s, sub) >= 0

\* strings.HasPrefix(s, p)
HasPrefix(s, p) == Len(s) >= Len(p) /\ SubSeq(s, 1, Len(p)) = p

\* strings.Cut(s, sep): the text before and after the first sep.
Cut(s, sep) ==
    LET i == Index(s, sep)
    IN  IF i >= 0
        THEN [before |-> SubSeq(s, 1, i),
              after  |-> SubSeq(s, i + Len(sep) + 1, Len(s)),
              found  |-> TRUE]
        ELSE [before |-> s, after |-> <<>>, found |-> FALSE]

UpperLetters == <<"A","B","C","D","E","F","G","H","I","J","K","L","M",
                  "N","O","P","Q","R","S","T","U","V","W","X","Y","Z">>
LowerLetters == <<"a","b","c","d","e","f","g","h","i","j","k","l","m",
                  "n","o","p","q","r","s","t","u","v","w","x","y","z">>
Digits == {"0","1","2","3","4","5","6","7","8","9"}

\* strings.ToLower(s)
ToLower(s) ==
    [i \in 1..Len(s) |->
        IF \E k \in 1..26 : UpperLetters[k] = s[i]
        THEN LowerLetters[CHOOSE k \in 1..26 : UpperLetters[k] = s[i]]
        ELSE s[i]]

\* The last element of strings.Split(s, "."): the text after the last dot,
\* or all of s when it holds no dot.
LastDotField(s) ==
    LET dots == {i \in 1..Len(s) : s[i] = "."}
    IN  IF dots = {} THEN s
        ELSE SubSeq(s, (CHOOSE i \in dots : \A j \in dots : j <= i) + 1, Len(s))

\* getFileExtension(s)
getFileExtension(s) == LastDotField(ToLower(s))

\* path.Base(name), as zip's FileInfo().Name() computes it: trailing
\* slashes removed, then the text after the last slash.
RECURSIVE TrimSlashes(_)
TrimSlashes(s) ==
    IF Len(s) > 0 /\ s[Len(s)] = "/" THEN TrimSlashes(SubSeq(s, 1, Len(s) - 1))
    ELSE s

BaseName(name) ==
    LET t == TrimSlashes(name)
        slashes == {i \in 1..Len(t) : t[i] = "/"}
    IN  IF name = <<>> THEN <<".">>
        ELSE IF t = <<>> THEN <<"/">>
        ELSE IF slashes = {} THEN t
        ELSE SubSeq(t, (CHOOSE i \in slashes : \A j \in slashes : j <= i) + 1, Len(t))

\* zip FileHeader.Mode().IsDir(): an entry whose name ends in a slash.
IsDir(name) == Len(name) > 0 /\ name[Len(name)] = "/"

(***************************************************************************)
(* Text constants of the code.                                             *)
(***************************************************************************)
Colon == <<":">>
Slash == <<"/">>
Md == <<"m","d">>
Mailto == <<"m","a","i","l","t","o",":">>
HttpScheme == <<"h","t","t","p",":","/","/">>
HttpsScheme == <<"h","t","t","p","s",":","/","/">>
LowerSet == {LowerLetters[k] : k \in 1..26}
\* [\da-z\.-]
HostChars == Digits \cup LowerSet \cup {".", "-"}
\* [a-z\.]
TldChars == LowerSet \cup {"."}

(***************************************************************************)
(* checkMdLink: parsing and resolving a link                               *)
(***************************************************************************)
\* regexp (^\[(.*?)]\() .FindString(l): the text up to and including the
\* first "](" when l starts with "[", else the empty string.
LabelPrefix(l) ==
    LET i == IF Len(l) > 0 THEN Index(SubSeq(l, 2, Len(l)), <<"]", "(">>) ELSE -1
    IN  IF Len(l) > 0 /\ l[1] = "[" /\ i >= 0
        THEN SubSeq(l, 1, i + 3)
        ELSE <<>>

\* The target of a matched link: the closing brace and the label removed.
StripLink(raw) ==
    LET l == SubSeq(raw, 1, Len(raw) - 1)
    IN  SubSeq(l, Len(LabelPrefix(l)) + 1, Len(l))

\* Whether l, after a scheme of p characters, continues with
\* ([\da-z\.-]+)\.([a-z\.]{2,6}).
HostAndTldAfter(l, p) ==
    \E a \in 1..Len(l) : \E k \in 2..6 :
        /\ p + a + 1 + k <= Len(l)
        /\ \A i \in (p + 1)..(p + a) : l[i] \in HostChars
        /\ l[p + a + 1] = "."
        /\ \A i \in (p + a + 2)..(p + a + 1 + k) : l[i] \in TldChars

\* regexp (^https?:\/\/)([\da-z\.-]+)\.([a-z\.]{2,6})\/?.* .FindString(l):
\* all of l when it matches (the tail .* runs to the end), else empty.
AbsUrlMatch(l) ==
    IF \/ (HasPrefix(l, HttpScheme) /\ HostAndTldAfter(l, Len(HttpScheme)))
       \/ (HasPrefix(l, HttpsScheme) /\ HostAndTldAfter(l, Len(HttpsScheme)))
    THEN l
    ELSE <<>>

\* A variant of DoesLookup without the test for a colon.
DoesLookupAnyScheme(l) == AbsUrlMatch(l) = <<>>

\* The condition of the if at main.go:148: the link is looked up in DNS.
DoesLookup(l) == ~Contains(l, Colon) /\ AbsUrlMatch(l) = <<>>

\* fqdn of main.go:148, the name handed to net.LookupIP.
LookupHost(l) == Cut(l, Slash).before

\* The path branch of main.go:154-158.
RepoPathUrl(webUrl, l, rpath) ==
    IF l /= <<>> /\ l[1] = "/"
    THEN webUrl \o l
    ELSE webUrl \o rpath \o l

\* A variant of ResolveUrl without the test of the file extension.
ResolveUrlAnyExtension(webUrl, l, rpath, dnsOK) ==
    IF DoesLookup(l)
    THEN IF dnsOK
         THEN HttpScheme \o l
         ELSE RepoPathUrl(webUrl, l, rpath)
    ELSE AbsUrlMatch(l)

\* url after main.go:145-160; dnsOK is net.LookupIP's answer for fqdn.
ResolveUrl(webUrl, l, rpath, dnsOK) ==
    IF DoesLookup(l)
    THEN IF dnsOK /\ getFileExtension(l) /= Md
         THEN HttpScheme \o l
         ELSE RepoPathUrl(webUrl, l, rpath)
    ELSE AbsUrlMatch(l)

\* main.go:162
IsMailto(l) == HasPrefix(l, Mailto)

(***************************************************************************)
(* findAndCheckMdFile: the paths of an archive entry                       *)
(***************************************************************************)
\* fileFullPath, main.go:187: the entry's name after the archive's folder.
FileFullPath(name) == Cut(name, Slash).after

\* fileRelativePath, main.go:188-194.
FileRelativePath(name) ==
    LET before == Cut(FileFullPath(name), BaseName(name)).before
    IN  IF before /= <<>> THEN Slash \o before \o Slash ELSE Slash

\* main.go:195-199: a regular file whose extension is md.
IsMdEntry(name) == ~IsDir(name) /\ ToLower(getFileExtension(BaseName(name))) = Md

(***************************************************************************)
(* Inputs: the repositories and the archives their downloads may hold.     *)
(***************************************************************************)
\* Indices of repos in RunCLI; routeNumber of the worker of each.
Repos == 0..(NumRepos - 1)

\* *r.HTMLURL of the repositories, opaque to the code.
HtmlUrls == <<"https://github.com/u/r0", "https://github.com/u/r1",
              "https://github.com/u/r2", "https://github.com/u/r3">>
HTMLURL(r) == <<HtmlUrls[(r % Len(HtmlUrls)) + 1]>>
\* *r.DefaultBranch
DefaultBranch(r) == <<"main">>

\* repoUrl, main.go:299: the web root relative links are resolved against.
WebUrl(r) == HTMLURL(r) \o <<"/","b","l","o","b","/">> \o DefaultBranch(r)

\* The folder <repo>-<branch>/ a snapshot archive wraps its content in.
Top == <<"repo-main", "/">>

\* Matches of the link regexp (main.go:216) in file contents.
LinkRel == <<"[","t","]","(","x",".","m","d",")">>
LinkRoot == <<"[","d","]","(","/","d","/","x",".","m","d",")">>
LinkAbs == <<"[","s","]","(","h","t","t","p",":","/","/","h",".","i","o","/","p",")">>
LinkMail == <<"[","m","]","(","m","a","i","l","t","o",":","m","@","h",".","i","o",")">>
LinkBare == <<"[","b","]","(","h",".","i","o","/","p",")">>
LinkFtp == <<"[","f","]","(","f","t","p",":","/","/","h","/","x",")">>

Entry(name, matches) == [Name |-> name, matches |-> matches]

\* A folder a/ with a markdown file in it, and a root file in upper case.
ArchDocs ==
    << Entry(Top \o <<"a","/">>, <<>>),
       Entry(Top \o <<"a","/","b",".","m","d">>, <<LinkRel, LinkRoot>>),
       Entry(Top \o <<"R",".","M","D">>, <<LinkAbs>>) >>
\* One markdown file with an e-mail link and an absolute link.
ArchMail ==
    << Entry(Top \o <<"R",".","m","d">>, <<LinkMail, LinkAbs>>) >>
\* No markdown file at all.
ArchCode ==
    << Entry(Top \o <<"m",".","g","o">>, <<LinkAbs>>) >>
\* A markdown file without links, and one with unusual targets.
ArchOdd ==
    << Entry(Top \o <<"R",".","m","d">>, <<>>),
       Entry(Top \o <<"N",".","m","d">>, <<LinkBare, LinkFtp, LinkMail>>) >>

\* A markdown file that holds the same link twice.
ArchTwice ==
    << Entry(Top \o <<"T",".","m","d">>, <<LinkBare, LinkBare>>) >>

\* A markdown file that holds the same link to a markdown file twice.
ArchTwiceMd ==
    << Entry(Top \o <<"U",".","m","d">>, <<LinkRel, LinkRel>>) >>

Archives == {ArchDocs, ArchMail, ArchCode, ArchOdd, ArchTwice, ArchTwiceMd}

\* What downloadGitArchive's I/O does: one of its four steps fails, or the
\* body of the response is stored ("stored") and nil is returned.
DownloadFailures == {"mkdir", "create", "get", "copy"}
DownloadOutcomes == {"stored"} \cup DownloadFailures
\* What was stored when downloadGitArchive returned nil, main.go:275-286,
\* which zip.OpenReader is the first to look at: the archive of a 200
\* response ("zip"), some other body of a 200 response ("junk"), or the body
\* of a response of any other status ("status"): resp.StatusCode is never
\* read.
SuccessResponses == {"zip", "junk"}
StoredBodies == SuccessResponses \cup {"status"}

\* What http.Get gives: a response with a status, or a transport error
\* with no response.
Status(c) == [err |-> FALSE, code |-> c]
NetErr == [err |-> TRUE, code |-> 0]
Responses == {Status(200), Status(404), Status(TooManyRequests), NetErr}

\* http.Get of an empty URL fails without a request leaving the host.
ResponsesFor(url) == IF url = <<>> THEN {NetErr} ELSE Responses

(***************************************************************************)
(* Values of the code                                                      *)
(***************************************************************************)
\* A nil *string.
NilState == "<nil>"
NoMdState == "[INF] No markdown links were found."
NoBrokenState == "[INF] No inactive/broken links were found."
DownloadErrState(kind) ==
    CASE kind = "mkdir" -> "[ERR] Couldn't create path."
      [] kind = "create" -> "[ERR] Couldn't create file."
      [] kind = "get" -> "[ERR] Couldn't download file."
      [] OTHER -> "[ERR] Couldn't store downloaded file."

\* A nil *[]MdFile, and a pointer to a list.
NilList == [isNil |-> TRUE, files |-> <<>>]
ListOf(files) == [isNil |-> FALSE, files |-> files]

\* The strings checkMdLink returns (main.go:163, 174, 176, 180).
NotUrlResult(url) == [tag |-> "[INF]", url |-> url, text |-> "is not URL", code |-> 0]
ErrResponseResult(url, c) == [tag |-> "[ERR]", url |-> url, text |-> "response", code |-> c]
InfResponseResult(url, c) == [tag |-> "[INF]", url |-> url, text |-> "response", code |-> c]
UnreachableResult == [tag |-> "[ERR]", url |-> <<>>, text |-> "Couldn't reach URL", code |-> 0]

\* main.go:173-178: the result and ok for a response with status c.
StatusResult(url, c) ==
    IF c >= ErrStatusFrom
    THEN [state |-> ErrResponseResult(url, c), ok |-> FALSE]
    ELSE [state |-> InfResponseResult(url, c), ok |-> TRUE]

\* A variant of AllLinksAfter that follows the last link only.
AllLinksAfterLast(cur, ok) == ok

\* main.go:220-221: AllLinksOK after a link whose check returned ok.
AllLinksAfter(cur, ok) == IF ~ok THEN FALSE ELSE cur

\* main.go:220-224: links after a link whose check returned state, ok.
\* A variant of LinksAfter that keeps the links that are ok too.
LinksAfterEveryLink(links, raw, state, ok) ==
    Append(links, [Link |-> raw, State |-> state, Succeed |-> ok])

LinksAfter(links, raw, state, ok) ==
    IF ~ok THEN Append(links, [Link |-> raw, State |-> state, Succeed |-> ok])
    ELSE links

\* A variant of FileListAfter that adds the file whatever links holds.
FileListAfterEveryFile(list, path, links) ==
    IF list.isNil
    THEN ListOf(<<[Path |-> path, LinkList |-> links]>>)
    ELSE ListOf(Append(list.files, [Path |-> path, LinkList |-> links]))

\* main.go:226-234: MdFileList after a file whose failing links are links.
FileListAfter(list, path, links) ==
    IF Len(links) > 0
    THEN IF list.isNil
         THEN ListOf(<<[Path |-> path, LinkList |-> links]>>)
         ELSE ListOf(Append(list.files, [Path |-> path, LinkList |-> links]))
    ELSE list

\* FinalState with the two tests in the other order.
FinalStateFlagFirst(state, list, allOK) ==
    IF allOK THEN NoBrokenState
    ELSE IF list.isNil THEN NoMdState
    ELSE state

\* main.go:307-313: State at the end of CheckGitMdLinks.
FinalState(state, list, allOK) ==
    IF list.isNil THEN NoMdState
    ELSE IF allOK THEN NoBrokenState
    ELSE state

\* main.go:290, 446: the WaitGroup a worker gets: wg is passed by value, so
\* the worker's parameter is a copy of the coordinator's counter as it is
\* when the go statement is executed.
WaitGroupArg(counter) == counter

(***************************************************************************)
(* State                                                                   *)
(***************************************************************************)
VARIABLES
    proc,        \* the process: "running", "exited" (main returned), "panicked"
    panicAt,     \* the goroutine and source line of the panic that ended it
    mainpc,      \* RunCLI: "spawn" (the loop at 444), "recv" (450), "returned"
    mainI,       \* RunCLI: i of the loop at 444
    wg,          \* RunCLI: counter of the WaitGroup wg
    wgc,         \* per worker: counter of its own parameter wg
    pc,          \* per worker: where CheckGitMdLinks stands
    archive,     \* per worker: reader.File, the entries of the opened archive
    dl,          \* per worker: how the I/O of downloadGitArchive ended, and
                 \* what it stored once zip.OpenReader has read it
    opened,      \* per worker: how zip.OpenReader ended: "no", "ok", "failed"
    err,         \* per worker: err of main.go:301
    State,       \* per worker: md.State
    AllLinksOK,  \* per worker: *md.AllLinksOK
    MdFileList,  \* per worker: md.MdFileList
    idx,         \* per worker: position of the loop at 249 in reader.File
    lidx,        \* per worker: position of the loop at 217 in matches
    links,       \* per worker: links of findAndCheckMdFile
    unread,      \* per worker: the entries f.Open or ioutil.ReadAll failed on
    cleaned,     \* per worker: os.RemoveAll(*md.ZipPath) was called
    call,        \* per worker: the running or last call of checkMdLink
    outs,        \* per worker: history of the calls of checkMdLink that returned
    reports,     \* the buffered channel reports
    received,    \* the reports RunCLI took from the channel
    output       \* what generateReport wrote

mainVars == <<mainpc, mainI, wg, received, output>>
fileVars == <<unread, opened, State, AllLinksOK, MdFileList, idx, lidx, links, cleaned, call, outs>>
vars == <<proc, panicAt, mainpc, mainI, wg, wgc, pc, archive, dl, unread, opened, err,
          State,
          AllLinksOK, MdFileList, idx, lidx, links, cleaned, call, outs,
          reports, received, output>>

NoPanic == [worker |-> -1, line |-> 0]
\* The coordinator's goroutine in panicAt.
MainRoutine == NumRepos
NoCall == [raw |-> <<>>, l |-> <<>>, path |-> <<>>, rpath |-> <<>>, url |-> <<>>,
           dns |-> FALSE, dnsOK |-> FALSE, gets |-> 0, n429 |-> 0, waited |-> 0,
           last |-> NetErr, returned |-> FALSE]

Init ==
    /\ proc = "running"
    /\ panicAt = NoPanic
    /\ mainpc = "spawn"
    /\ mainI = 0
    /\ wg = 0
    /\ wgc = [w \in Repos |-> 0]
    /\ pc = [w \in Repos |-> "idle"]
    /\ archive = [w \in Repos |-> <<>>]
    /\ dl = [w \in Repos |-> "pending"]
    /\ opened = [w \in Repos |-> "no"]
    /\ err = [w \in Repos |-> "unset"]
    /\ State = [w \in Repos |-> NilState]
    /\ AllLinksOK = [w \in Repos |-> TRUE]
    /\ MdFileList = [w \in Repos |-> NilList]
    /\ idx = [w \in Repos |-> 0]
    /\ lidx = [w \in Repos |-> 0]
    /\ links = [w \in Repos |-> <<>>]
    /\ unread = [w \in Repos |-> {}]
    /\ cleaned = [w \in Repos |-> FALSE]
    /\ call = [w \in Repos |-> NoCall]
    /\ outs = [w \in Repos |-> <<>>]
    /\ reports = <<>>
    /\ received = <<>>
    /\ output = <<>>

\* A run-time panic in goroutine g at a source line: nothing recovers it,
\* so the whole process ends.
Panic(g, line) ==
    /\ proc' = "panicked"
    /\ panicAt' = [worker |-> g, line |-> line]

Running == /\ proc' = proc
           /\ panicAt' = panicAt

(***************************************************************************)
(* RunCLI                                                                  *)
(***************************************************************************)
\* main.go:444-448: one turn of the loop: wg.Add(1) and the go statement,
\* which evaluates its arguments, wg among them, in RunCLI's goroutine.
Spawn ==
    /\ proc = "running"
    /\ mainpc = "spawn"
    /\ mainI < NumRepos
    /\ wg' = wg + 1
    /\ wgc' = [wgc EXCEPT ![mainI] = WaitGroupArg(wg + 1)]
    /\ pc' = [pc EXCEPT ![mainI] = "download"]
    /\ mainI' = mainI + 1
    /\ mainpc' = IF mainI + 1 = NumRepos THEN "recv" ELSE "spawn"
    /\ Running
    /\ UNCHANGED <<archive, dl, err, fileVars, reports, received, output>>

\* One line of output: the template and the data it shows.
Line(tpl, r, path, link, text, state) ==
    [tpl |-> tpl, repo |-> r, path |-> path, link |-> link, text |-> text,
     state |-> state]
NoResult == [tag |-> "", url |-> <<>>, text |-> "", code |-> 0]

\* main.go:109-113: the rows of one file's failing links.
RECURSIVE LinkRows(_, _)
LinkRows(r, ls) ==
    IF ls = <<>> THEN <<>>
    ELSE (IF ~Head(ls).Succeed
          THEN <<Line("link", r, <<>>, Head(ls).Link, "", Head(ls).State)>>
          ELSE <<>>) \o LinkRows(r, Tail(ls))

\* main.go:102-115: the lines of the files of a report.
RECURSIVE FileLines(_, _)
FileLines(md, files) ==
    IF files = <<>> THEN <<>>
    ELSE <<Line("fileHead", md.Repository, <<>>, <<>>, "", NoResult)>>
         \o (IF ~md.AllLinksOK
             THEN <<Line("file", md.Repository, Head(files).Path, <<>>, "", NoResult)>>
                  \o LinkRows(md.Repository, Head(files).LinkList)
             ELSE <<>>)
         \o FileLines(md, Tail(files))

\* generateReport, main.go:86-117 (a report whose State is nil holds a list).
generateReport(md) ==
    <<Line("repo", md.Repository, <<>>, <<>>, "", NoResult)>>
    \o (IF md.State /= NilState
        THEN <<Line("repoErr", md.Repository, <<>>, <<>>, md.State, NoResult)>>
        ELSE FileLines(md, md.MdFileList.files))

\* main.go:450-451: RunCLI receives one report, writes it and returns; main
\* returns with it and the process, with every goroutine still running,
\* ends.
Receive ==
    /\ proc = "running"
    /\ mainpc = "recv"
    /\ reports /= <<>>
    /\ received' = Append(received, Head(reports))
    /\ reports' = Tail(reports)
    /\ IF Head(reports).State = NilState /\ Head(reports).MdFileList.isNil
       THEN /\ Panic(MainRoutine, 101)
            /\ UNCHANGED <<output, mainpc>>
       ELSE /\ output' = output \o generateReport(Head(reports))
            /\ mainpc' = "returned"
            /\ proc' = "exited"
            /\ panicAt' = panicAt
    /\ UNCHANGED <<mainI, wg, wgc, pc, archive, dl, err, fileVars>>

(***************************************************************************)
(* CheckGitMdLinks: download and barrier                                   *)
(***************************************************************************)
\* The assignment *md.State = text (main.go:244, 253, 263, 269, 277, 283):
\* md.State is the nil pointer new(MdReport) left, unless the end of
\* CheckGitMdLinks has set it, and storing through nil panics.
StoresThroughNil(w) == State[w] = NilState

\* downloadGitArchive, main.go:259-287, called at 301.  It returns nil
\* whenever the request got a response and its body was copied, whatever
\* the status, so the stored file may be no archive.
DownloadGitArchive(w) ==
    /\ proc = "running"
    /\ pc[w] = "download"
    /\ \E o \in DownloadOutcomes :
        /\ dl' = [dl EXCEPT ![w] = o]
        /\ IF o \in DownloadFailures
           THEN IF StoresThroughNil(w)
                THEN /\ Panic(w, CASE o = "mkdir" -> 263 [] o = "create" -> 269
                                   [] o = "get" -> 277 [] OTHER -> 283)
                     /\ UNCHANGED <<State, err, pc>>
                ELSE /\ State' = [State EXCEPT ![w] = DownloadErrState(o)]
                     /\ err' = [err EXCEPT ![w] = o]
                     /\ pc' = [pc EXCEPT ![w] = "done"]
                     /\ Running
           ELSE /\ err' = [err EXCEPT ![w] = "nil"]
                /\ pc' = [pc EXCEPT ![w] = "done"]
                /\ Running
                /\ UNCHANGED State
    /\ UNCHANGED <<mainVars, unread, wgc, archive, opened, AllLinksOK, MdFileList, idx,
                   lidx, links, cleaned, call, outs, reports>>

\* wg.Done(), main.go:302, on the worker's own WaitGroup, and the test of
\* err at 303.
WgDone(w) ==
    /\ proc = "running"
    /\ pc[w] = "done"
    /\ IF wgc[w] - 1 < 0
       THEN /\ Panic(w, 302)
            /\ UNCHANGED <<wgc, pc>>
       ELSE /\ wgc' = [wgc EXCEPT ![w] = wgc[w] - 1]
            /\ pc' = [pc EXCEPT ![w] = IF err[w] = "nil" THEN "wait" ELSE "final"]
            /\ Running
    /\ UNCHANGED <<mainVars, archive, dl, err, fileVars, reports>>

\* wg.Wait(), main.go:304, returns when the counter of the worker's own
\* WaitGroup is zero.
WgWait(w) ==
    /\ proc = "running"
    /\ pc[w] = "wait"
    /\ wgc[w] = 0
    /\ pc' = [pc EXCEPT ![w] = "open"]
    /\ Running
    /\ UNCHANGED <<mainVars, wgc, archive, dl, err, fileVars, reports>>

(***************************************************************************)
(* checkMdFiles and findAndCheckMdFile                                     *)
(***************************************************************************)
\* Where the loop at main.go:249 stands after entry i - 1.
EntryPc(w, i) == IF i > Len(archive[w]) THEN "cleanup" ELSE "entry"

\* main.go:241-246: zip.OpenReader on the stored file, which is any of
\* StoredBodies; of an archive it reads the entries, any of Archives.
OpenArchive(w) ==
    /\ proc = "running"
    /\ pc[w] = "open"
    /\ \E b \in StoredBodies :
        /\ dl' = [dl EXCEPT ![w] = b]
        /\ opened' = [opened EXCEPT ![w] = IF b = "zip" THEN "ok" ELSE "failed"]
        /\ IF b = "zip"
           THEN /\ \E a \in Archives :
                     /\ archive' = [archive EXCEPT ![w] = a]
                     /\ pc' = [pc EXCEPT ![w] = IF Len(a) = 0 THEN "cleanup" ELSE "entry"]
                /\ idx' = [idx EXCEPT ![w] = 1]
                /\ Running
                /\ UNCHANGED State
           ELSE IF StoresThroughNil(w)
                THEN /\ Panic(w, 244)
                     /\ UNCHANGED <<State, idx, pc, archive>>
                ELSE /\ State' = [State EXCEPT ![w] = "[ERR] Couldn't open archive"]
                     /\ pc' = [pc EXCEPT ![w] = "final"]
                     /\ Running
                     /\ UNCHANGED <<idx, archive>>
    /\ UNCHANGED <<mainVars, unread, wgc, err, AllLinksOK, MdFileList,
                   lidx, links, cleaned, call, outs, reports>>

\* findAndCheckMdFile up to the loop over the matches, main.go:186-216,
\* and all of it for a file without matches (226: links is empty).  An
\* entry that cannot be opened or read makes the code read *md.State,
\* which is nil there.
BeginEntry(w) ==
    /\ proc = "running"
    /\ pc[w] = "entry"
    /\ LET e == archive[w][idx[w]]
       IN  IF ~IsMdEntry(e.Name)
           THEN /\ idx' = [idx EXCEPT ![w] = idx[w] + 1]
                /\ pc' = [pc EXCEPT ![w] = EntryPc(w, idx[w] + 1)]
                /\ Running
                /\ UNCHANGED <<State, lidx, links, MdFileList, unread>>
           ELSE \E rd \in {"ok", "open", "read"} :
                IF rd /= "ok"
                THEN /\ unread' = [unread EXCEPT ![w] = @ \cup {idx[w]}]
                     /\ IF StoresThroughNil(w)
                        THEN /\ Panic(w, IF rd = "open" THEN 203 ELSE 211)
                             /\ UNCHANGED <<State, idx, lidx, links, pc, MdFileList>>
                        ELSE /\ State' = [State EXCEPT ![w] = "[ERR] Couldn't load file"]
                             /\ idx' = [idx EXCEPT ![w] = idx[w] + 1]
                             /\ pc' = [pc EXCEPT ![w] = EntryPc(w, idx[w] + 1)]
                             /\ Running
                             /\ UNCHANGED <<lidx, links, MdFileList>>
                ELSE IF e.matches = <<>>
                THEN /\ MdFileList' = [MdFileList EXCEPT ![w] =
                           FileListAfter(MdFileList[w], FileFullPath(e.Name), <<>>)]
                     /\ idx' = [idx EXCEPT ![w] = idx[w] + 1]
                     /\ pc' = [pc EXCEPT ![w] = EntryPc(w, idx[w] + 1)]
                     /\ Running
                     /\ UNCHANGED <<State, lidx, links, unread>>
                ELSE /\ lidx' = [lidx EXCEPT ![w] = 1]
                     /\ links' = [links EXCEPT ![w] = <<>>]
                     /\ pc' = [pc EXCEPT ![w] = "link"]
                     /\ Running
                     /\ UNCHANGED <<State, idx, MdFileList, unread>>
    /\ UNCHANGED <<mainVars, wgc, archive, dl, opened, err, AllLinksOK,
                   cleaned, call, outs, reports>>

\* checkMdLink returns state, ok to the loop at main.go:217-225; after the
\* last match the file is added to the list (226-234) and the loop at 249
\* goes on.  c is the call as it ends.
ReturnFromCheck(w, c, state, ok) ==
    LET e == archive[w][idx[w]]
        newLinks == LinksAfter(links[w], c.raw, state, ok)
        done == [c EXCEPT !.returned = TRUE]
    IN  /\ AllLinksOK' = [AllLinksOK EXCEPT ![w] = AllLinksAfter(AllLinksOK[w], ok)]
        /\ call' = [call EXCEPT ![w] = done]
        /\ outs' = [outs EXCEPT ![w] =
                      Append(outs[w], [call |-> done, state |-> state, ok |-> ok])]
        /\ IF lidx[w] < Len(e.matches)
           THEN /\ lidx' = [lidx EXCEPT ![w] = lidx[w] + 1]
                /\ links' = [links EXCEPT ![w] = newLinks]
                /\ pc' = [pc EXCEPT ![w] = "link"]
                /\ UNCHANGED <<MdFileList, idx>>
           ELSE /\ MdFileList' = [MdFileList EXCEPT ![w] =
                       FileListAfter(MdFileList[w], FileFullPath(e.Name), newLinks)]
                /\ links' = [links EXCEPT ![w] = <<>>]
                /\ lidx' = [lidx EXCEPT ![w] = 0]
                /\ idx' = [idx EXCEPT ![w] = idx[w] + 1]
                /\ pc' = [pc EXCEPT ![w] = EntryPc(w, idx[w] + 1)]
        /\ Running

\* checkMdLink, main.go:137-183, up to the answer to its first request.
CheckMdLink(w) ==
    /\ proc = "running"
    /\ pc[w] = "link"
    /\ LET e == archive[w][idx[w]]
           raw == e.matches[lidx[w]]
           l == StripLink(raw)
           rpath == FileRelativePath(e.Name)
       IN  \E dnsOK \in BOOLEAN :
           /\ dnsOK => (DoesLookup(l) /\ LookupHost(l) /= <<>>)
           /\ LET url == ResolveUrl(WebUrl(w), l, rpath, dnsOK)
                  c == [raw |-> raw, l |-> l, path |-> FileFullPath(e.Name),
                        rpath |-> rpath, url |-> url, dns |-> DoesLookup(l),
                        dnsOK |-> dnsOK, gets |-> 0, n429 |-> 0, waited |-> 0, last |-> NetErr,
                        returned |-> FALSE]
              IN  IF IsMailto(l)
                  THEN ReturnFromCheck(w, c, NotUrlResult(url), TRUE)
                  ELSE \E resp \in ResponsesFor(url) :
                       LET c1 == [c EXCEPT !.gets = 1, !.last = resp]
                       IN  IF resp.err
                           THEN ReturnFromCheck(w, c1, UnreachableResult, FALSE)
                           ELSE IF resp.code = TooManyRequests
                           THEN /\ call' = [call EXCEPT ![w] = [c1 EXCEPT !.n429 = 1]]
                                /\ pc' = [pc EXCEPT ![w] = "retry"]
                                /\ Running
                                /\ UNCHANGED <<AllLinksOK, MdFileList, idx, lidx,
                                               links, outs>>
                           ELSE ReturnFromCheck(w, c1, StatusResult(url, resp.code).state,
                                                StatusResult(url, resp.code).ok)
    /\ UNCHANGED <<mainVars, unread, wgc, archive, dl, opened, err, State, cleaned, reports>>

\* getUrlWithDelay, main.go:125-134: the sleep, one more request, and the
\* deferred res.Body.Close(), whose res is nil when the request failed.  A
\* status other than 429 returns to main.go:170-178.
GetUrlWithDelay(w) ==
    /\ proc = "running"
    /\ pc[w] = "retry"
    /\ \E resp \in ResponsesFor(call[w].url) :
        /\ (~resp.err /\ resp.code = TooManyRequests) => call[w].n429 < MaxRetries
        /\ LET c1 == [call[w] EXCEPT !.gets = @ + 1, !.waited = @ + CoolDown,
                                     !.last = resp]
           IN  IF resp.err
               THEN /\ Panic(w, 128)
                    /\ call' = [call EXCEPT ![w] = c1]
                    /\ UNCHANGED <<AllLinksOK, MdFileList, idx, lidx, links, outs, pc>>
               ELSE IF resp.code = TooManyRequests
               THEN /\ call' = [call EXCEPT ![w] = [c1 EXCEPT !.n429 = @ + 1]]
                    /\ Running
                    /\ UNCHANGED <<AllLinksOK, MdFileList, idx, lidx, links, outs, pc>>
               ELSE ReturnFromCheck(w, c1, StatusResult(c1.url, resp.code).state,
                                    StatusResult(c1.url, resp.code).ok)
    /\ UNCHANGED <<mainVars, unread, wgc, archive, dl, opened, err, State, cleaned, reports>>

\* main.go:252-255: os.RemoveAll(*md.ZipPath) after the last entry.
Cleanup(w) ==
    /\ proc = "running"
    /\ pc[w] = "cleanup"
    /\ cleaned' = [cleaned EXCEPT ![w] = TRUE]
    /\ \E ok \in BOOLEAN :
        IF ok
        THEN /\ pc' = [pc EXCEPT ![w] = "final"]
             /\ Running
             /\ UNCHANGED State
        ELSE IF StoresThroughNil(w)
             THEN /\ Panic(w, 253)
                  /\ UNCHANGED <<State, pc>>
             ELSE /\ State' = [State EXCEPT ![w] = "[ERR] Couldn't cleanup"]
                  /\ pc' = [pc EXCEPT ![w] = "final"]
                  /\ Running
    /\ UNCHANGED <<mainVars, unread, wgc, archive, dl, opened, err, AllLinksOK,
                   MdFileList, idx, lidx, links, call, outs, reports>>

\* A channel without buffer in place of ChannelCap.
UnbufferedCap(reposNumber) == reposNumber - reposNumber

\* main.go:442: make(chan MdReport, reposNumber), the capacity of reports.
ChannelCap(reposNumber) == reposNumber

\* main.go:307-314: the final State and the send of *md on the channel;
\* the send blocks while the buffer is full.
SendReport(w) ==
    /\ proc = "running"
    /\ pc[w] = "final"
    /\ Len(reports) < ChannelCap(NumRepos)
    /\ State' = [State EXCEPT ![w] = FinalState(State[w], MdFileList[w], AllLinksOK[w])]
    /\ reports' = Append(reports,
                     [Repository |-> w,
                      MdFileList |-> MdFileList[w],
                      State |-> FinalState(State[w], MdFileList[w], AllLinksOK[w]),
                      AllLinksOK |-> AllLinksOK[w]])
    /\ pc' = [pc EXCEPT ![w] = "sent"]
    /\ Running
    /\ UNCHANGED <<mainVars, unread, wgc, archive, dl, opened, err, AllLinksOK,
                   MdFileList, idx, lidx, links, cleaned, call, outs>>

Worker(w) ==
    \/ DownloadGitArchive(w)
    \/ WgDone(w)
    \/ WgWait(w)
    \/ OpenArchive(w)
    \/ BeginEntry(w)
    \/ CheckMdLink(w)
    \/ GetUrlWithDelay(w)
    \/ Cleanup(w)
    \/ SendReport(w)

Next ==
    \/ Spawn
    \/ Receive
    \/ \E w \in Repos : Worker(w)

Spec == Init /\ [][Next]_vars

(***************************************************************************)
(* Notions the properties use                                              *)
(***************************************************************************)
\* downloadGitArchive of w has ended, successfully or not.
DownloadEnded(w) == dl[w] /= "pending"

\* Every worker has called wg.Done.
AllSignalled == \A v \in Repos : pc[v] \notin {"idle", "download", "done"}

\* The reports sent so far, received or still in the channel.
Delivered == received \o reports
ReportsOf(w) == {i \in 1..Len(Delivered) : Delivered[i].Repository = w}

\* The failing links of a list of files, in order, with their file.
RECURSIVE FlatLinks(_)
FlatLinks(files) ==
    IF files = <<>> THEN <<>>
    ELSE [i \in 1..Len(Head(files).LinkList) |->
             [path |-> Head(files).Path,
              Link |-> Head(files).LinkList[i].Link,
              State |-> Head(files).LinkList[i].State,
              Succeed |-> Head(files).LinkList[i].Succeed]]
         \o FlatLinks(Tail(files))

\* The calls of checkMdLink that returned not ok, in order, as links.
RECURSIVE FailedOuts(_)
FailedOuts(os) ==
    IF os = <<>> THEN <<>>
    ELSE (IF ~Head(os).ok
          THEN <<[path |-> Head(os).call.path, Link |-> Head(os).call.raw,
                  State |-> Head(os).state, Succeed |-> FALSE]>>
          ELSE <<>>) \o FailedOuts(Tail(os))

\* The path of the file the worker is in the middle of.
CurrentPath(w) == FileFullPath(archive[w][idx[w]].Name)

\* The links recorded for w: those of the finished files and those of the
\* file being read.
RecordedLinks(w) ==
    FlatLinks(MdFileList[w].files)
    \o [i \in 1..Len(links[w]) |->
           [path |-> CurrentPath(w), Link |-> links[w][i].Link,
            State |-> links[w][i].State, Succeed |-> links[w][i].Succeed]]

\* The archive holds at least one markdown file.
HasMdFile(a) == \E i \in 1..Len(a) : IsMdEntry(a[i].Name)

\* The directory of a repository-relative path: the path without its file
\* name.
DirOf(path) ==
    LET slashes == {i \in 1..Len(path) : path[i] = "/"}
    IN  IF slashes = {} THEN <<>>
        ELSE SubSeq(path, 1, CHOOSE i \in slashes : \A j \in slashes : j <= i)

(***************************************************************************)
(* C1                                                                      *)
(***************************************************************************)
\* C1: in a run in which RunCLI has started all its workers (NumRepos >= 2
\* of them), a worker returns from wg.Wait and enters checkMdFiles only
\* when downloadGitArchive has ended, successfully or not, in every worker.
C1_DownloadBarrier ==
    [][\A w \in Repos :
          (mainpc /= "spawn" /\ pc[w] = "wait" /\ pc'[w] = "open")
              => \A v \in Repos : DownloadEnded(v)]_vars

(***************************************************************************)
(* C2                                                                      *)
(***************************************************************************)
\* C2: once every worker has signalled the end of its download, no worker
\* whose download succeeded is held at wg.Wait: its Wait can return, so it
\* starts checkMdFiles.  (A worker held in such a state is held for ever:
\* no step changes the counter it waits on.)
C2_BarrierOpens ==
    (proc = "running" /\ AllSignalled)
        => \A w \in Repos : (pc[w] = "wait" /\ err[w] = "nil") => ENABLED WgWait(w)

(***************************************************************************)
(* C3                                                                      *)
(***************************************************************************)
\* C3: RunCLI starts exactly one worker per repository, and by the time it
\* returns it has received the report of each of the NumRepos repositories.
C3_AllReportsReceived ==
    /\ mainpc /= "spawn" => \A r \in Repos : pc[r] /= "idle"
    /\ mainpc = "returned" => \A r \in Repos :
                                 \E i \in 1..Len(received) : received[i].Repository = r

(***************************************************************************)
(* C4                                                                      *)
(***************************************************************************)
\* C4: a worker whose downloadGitArchive failed goes on to deliver a report
\* (it does not end the process), and a report it delivered has no file
\* entries and the download error as State.
C4_DownloadFailureReported ==
    \A w \in Repos : dl[w] \in DownloadFailures =>
        /\ proc /= "panicked"
        /\ \A i \in ReportsOf(w) :
              /\ Delivered[i].MdFileList.files = <<>>
              /\ Delivered[i].State = DownloadErrState(dl[w])

(***************************************************************************)
(* C5                                                                      *)
(***************************************************************************)
\* C5: a delivered report of a repository with at least one markdown file
\* whose links all validated ok has the State "No inactive/broken links
\* were found" and shows no broken-link row.
C5_HealthyRepositoryState ==
    \A i \in 1..Len(Delivered) :
        LET md == Delivered[i]
            w == md.Repository
        IN  (HasMdFile(archive[w]) /\ \A k \in 1..Len(outs[w]) : outs[w][k].ok)
                => /\ md.State = NoBrokenState
                   /\ \A n \in 1..Len(generateReport(md)) :
                         generateReport(md)[n].tpl /= "link"

(***************************************************************************)
(* C6                                                                      *)
(***************************************************************************)
\* What C6 expects of the answer of one returned call: not ok exactly for a
\* link that is no e-mail link and whose last response failed (a network
\* error or a status of 400 or more).
FailedCheck(o) ==
    /\ ~IsMailto(o.call.l)
    /\ (o.call.last.err \/ o.call.last.code >= ErrStatusFrom)

\* C6: AllLinksOK of a worker is true exactly while every call of
\* checkMdLink so far returned ok (so it starts true, turns false with the
\* first failing link and never turns true again); a call returns not ok
\* exactly for a non-e-mail link whose request failed or was answered with a
\* status >= 400; and the failing links so far are exactly the links
\* recorded, each with its state, under the file it was found in.
C6_AllLinksOK ==
    \A w \in Repos :
        /\ AllLinksOK[w] = (\A k \in 1..Len(outs[w]) : outs[w][k].ok)
        /\ \A k \in 1..Len(outs[w]) : outs[w][k].ok = ~FailedCheck(outs[w][k])
        /\ RecordedLinks(w) = FailedOuts(outs[w])

\* A failing link followed by a good one: the flag stays false and the
\* failing link is in the list.
C6_Witness ==
    \E w \in Repos :
        /\ Len(outs[w]) >= 2
        /\ ~outs[w][1].ok
        /\ outs[w][2].ok
        /\ ~AllLinksOK[w]
        /\ ~MdFileList[w].isNil
        /\ MdFileList[w].files[1].LinkList[1].Link = outs[w][1].call.raw

(***************************************************************************)
(* C7                                                                      *)
(***************************************************************************)
\* C7: a call of checkMdLink for a target that begins with mailto: returns
\* ok with an [INF] result and has made no DNS lookup and no HTTP request;
\* no such link is ever recorded in a file's list, no such call is ever in
\* the retry loop, and AllLinksOK is false only if a link that is no e-mail
\* link failed.
C7_MailtoNotValidated ==
    \A w \in Repos :
        /\ \A k \in 1..Len(outs[w]) :
              IsMailto(outs[w][k].call.l) =>
                  /\ outs[w][k].ok
                  /\ outs[w][k].state.tag = "[INF]"
                  /\ outs[w][k].call.gets = 0
                  /\ ~outs[w][k].call.dns
        /\ \A k \in 1..Len(RecordedLinks(w)) :
              ~IsMailto(StripLink(RecordedLinks(w)[k].Link))
        /\ pc[w] = "retry" => ~IsMailto(call[w].l)
        /\ ~AllLinksOK[w] =>
              \E k \in 1..Len(outs[w]) : ~IsMailto(outs[w][k].call.l) /\ ~outs[w][k].ok

\* An e-mail link has been checked in a file whose other link failed.
C7_Witness ==
    \E w \in Repos : \E k, n \in 1..Len(outs[w]) :
        /\ IsMailto(outs[w][k].call.l)
        /\ outs[w][k].call.returned
        /\ ~outs[w][n].ok
        /\ outs[w][n].call.path = outs[w][k].call.path

(***************************************************************************)
(* C8                                                                      *)
(***************************************************************************)
\* C8: when the retrying of a request answered 429 ends, by a status other
\* than 429 or by a network error, the call returns and that last result
\* alone decides the link's outcome (an error for a network error); and no
\* link is ever recorded with status 429.
C8_RetryUntilFinalResult ==
    \A w \in Repos :
        /\ (call[w].n429 >= 1 /\ (call[w].last.err \/ call[w].last.code /= TooManyRequests))
              => /\ call[w].returned
                 /\ outs[w] /= <<>>
                 /\ outs[w][Len(outs[w])].call = call[w]
                 /\ outs[w][Len(outs[w])].ok = ~FailedCheck(outs[w][Len(outs[w])])
                 /\ call[w].last.err => outs[w][Len(outs[w])].state.tag = "[ERR]"
        /\ \A k \in 1..Len(RecordedLinks(w)) :
              RecordedLinks(w)[k].State.code /= TooManyRequests

(***************************************************************************)
(* C9                                                                      *)
(***************************************************************************)
\* The call resolved its target as a path within the repository.
ResolvedAsPath(c) ==
    /\ c.dns
    /\ ~(c.dnsOK /\ getFileExtension(c.l) /= Md)

\* C9: a target resolved as a path within the repository resolves to web
\* root + target when it starts with a slash, and otherwise to web root +
\* "/" + directory of the current file + target (x.md in a/b.md to
\* <web root>/a/x.md).
C9_PathResolution ==
    \A w \in Repos : \A k \in 1..Len(outs[w]) :
        LET c == outs[w][k].call
        IN  ResolvedAsPath(c) =>
                c.url = IF c.l /= <<>> /\ c.l[1] = "/"
                        THEN WebUrl(w) \o c.l
                        ELSE WebUrl(w) \o Slash \o DirOf(c.path) \o c.l

(***************************************************************************)
(* C10                                                                     *)
(***************************************************************************)
\* A worker met a fatal error: its download failed or its archive could not
\* be opened.
FatalError(w) == dl[w] \in DownloadFailures \/ opened[w] = "failed"

\* C10: a fatal error in one worker leaves the process, and with it the
\* coordinator and every other worker, running.
C10_FatalErrorConfined ==
    (\E w \in Repos : FatalError(w)) => proc /= "panicked"

(***************************************************************************)
(* C11                                                                     *)
(***************************************************************************)
\* C11: a request that ends in a network error, be it the first request of
\* the call or a retry after a 429, makes checkMdLink return the error
\* outcome "[ERR] Couldn't reach URL"; the link is recorded as the last
\* failing link of its file and the process goes on to the next link.
C11_NetworkErrorRecorded ==
    \A w \in Repos :
        (call[w].gets >= 1 /\ call[w].last.err) =>
            /\ proc /= "panicked"
            /\ call[w].returned
            /\ outs[w] /= <<>>
            /\ outs[w][Len(outs[w])].call = call[w]
            /\ outs[w][Len(outs[w])].state = UnreachableResult
            /\ ~outs[w][Len(outs[w])].ok
            /\ RecordedLinks(w) /= <<>>
            /\ RecordedLinks(w)[Len(RecordedLinks(w))].Link = call[w].raw
            /\ RecordedLinks(w)[Len(RecordedLinks(w))].State = UnreachableResult

(***************************************************************************)
(* C12                                                                     *)
(***************************************************************************)
\* C12: when a markdown entry cannot be opened or read, the worker records
\* the error in State and goes on: the process is not ended, State is no
\* longer nil, and the loop over the archive has moved past that entry.
C12_UnreadableEntryRecorded ==
    \A w \in Repos : \A i \in unread[w] :
        /\ proc /= "panicked"
        /\ State[w] /= NilState
        /\ idx[w] > i

(***************************************************************************)
(* C13                                                                     *)
(***************************************************************************)
\* The worker is in or past extraction: checkMdFiles has called
\* zip.OpenReader on the stored file.
InExtraction(w) == opened[w] /= "no"

\* C13: a worker enters extraction only after a response of success status
\* whose body was stored completely; a response of any other status makes
\* the fetcher fail.
C13_ExtractionAfterSuccessResponse ==
    \A w \in Repos :
        /\ InExtraction(w) => dl[w] \in SuccessResponses
        /\ dl[w] = "status" => err[w] /= "nil"

(***************************************************************************)
(* C14                                                                     *)
(***************************************************************************)
\* The worker read its archive to the end and the archive holds no markdown
\* file.
FinishedWithoutMd(w) ==
    /\ opened[w] = "ok"
    /\ pc[w] = "sent"
    /\ ~HasMdFile(archive[w])

\* C14: the report delivered for a repository whose archive holds no
\* markdown file has the State "[INF] No markdown links were found." and
\* no FileReport.
C14_NoMarkdownReport ==
    \A i \in 1..Len(Delivered) :
        FinishedWithoutMd(Delivered[i].Repository) =>
            /\ Delivered[i].State = NoMdState
            /\ Delivered[i].MdFileList = NilList

\* The report of a repository that holds m.go only is delivered.
C14_Witness ==
    \E i \in 1..Len(Delivered) :
        /\ FinishedWithoutMd(Delivered[i].Repository)
        /\ archive[Delivered[i].Repository] = ArchCode
        /\ Delivered[i].State = NoMdState

(***************************************************************************)
(* C15                                                                     *)
(***************************************************************************)
\* Two calls of checkMdLink by w for the same raw link of the same file.
SameLinkTwice(w, j, k) ==
    /\ j /= k
    /\ outs[w][j].call.raw = outs[w][k].call.raw
    /\ outs[w][j].call.path = outs[w][k].call.path

\* C15 as stated: two resolutions of the same raw link of the same file,
\* one of which resolved the target as a path within the repository, give the
\* same target.
C15_ResolutionIdempotent ==
    \A w \in Repos : \A j, k \in 1..Len(outs[w]) :
        (SameLinkTwice(w, j, k) /\ ResolvedAsPath(outs[w][j].call)) =>
            outs[w][j].call.url = outs[w][k].call.url

\* C15, amended: the two resolutions give the same target when the DNS
\* lookup of the target's first segment answers the same both times; and a
\* target whose extension is md resolves to its path within the repository
\* whatever the lookup answers.
C15_ResolutionIdempotentSameLookup ==
    \A w \in Repos :
        /\ \A j, k \in 1..Len(outs[w]) :
              ( /\ SameLinkTwice(w, j, k)
                /\ ResolvedAsPath(outs[w][j].call)
                /\ outs[w][j].call.dnsOK = outs[w][k].call.dnsOK ) =>
                  outs[w][j].call.url = outs[w][k].call.url
        /\ \A j, k \in 1..Len(outs[w]) :
              ( /\ SameLinkTwice(w, j, k)
                /\ outs[w][j].call.dns
                /\ getFileExtension(outs[w][j].call.l) = Md ) =>
                  /\ outs[w][j].call.url = outs[w][k].call.url
                  /\ outs[w][j].call.url =
                        RepoPathUrl(WebUrl(w), outs[w][j].call.l, outs[w][j].call.rpath)

\* The link to x.md resolved twice in the same file, the DNS lookup
\* failing the first time and answering the second: both resolve to the
\* path within the repository.
C15_Witness ==
    \E w \in Repos : \E j, k \in 1..Len(outs[w]) :
        /\ SameLinkTwice(w, j, k)
        /\ outs[w][j].call.raw = LinkRel
        /\ ~outs[w][j].call.dnsOK
        /\ outs[w][k].call.dnsOK
        /\ ResolvedAsPath(outs[w][j].call)
        /\ ResolvedAsPath(outs[w][k].call)
        /\ outs[w][j].call.url = outs[w][k].call.url
        /\ HasPrefix(outs[w][j].call.url, WebUrl(w))

(***************************************************************************)
(* C16                                                                     *)
(***************************************************************************)
\* The target of call c falls to the last rule of the decision sequence: it
\* is no absolute HTTP(S) URL, no mailto: address and no bare domain.
PathRelativeFallback(c) ==
    /\ AbsUrlMatch(c.l) = <<>>
    /\ ~IsMailto(c.l)
    /\ ~(c.dnsOK /\ getFileExtension(c.l) /= Md)

\* C16: every target that is no absolute HTTP(S) URL, no mailto: address
\* and no bare domain, a target with a colon such as ftp://h/x included, is
\* resolved to a non-empty target under the repository web root before it is
\* requested.
C16_FallbackUnderWebRoot ==
    \A w \in Repos : \A k \in 1..Len(outs[w]) :
        PathRelativeFallback(outs[w][k].call) =>
            /\ outs[w][k].call.url /= <<>>
            /\ HasPrefix(outs[w][k].call.url, WebUrl(w))

(***************************************************************************)
(* C17                                                                     *)
(***************************************************************************)
\* The paths of the FileReports of a list.
ReportedPaths(list) == {list.files[i].Path : i \in 1..Len(list.files)}

\* The entries of w's archive that findAndCheckMdFile has finished and read
\* as markdown.
FinishedMdEntries(w) ==
    {i \in 1..Len(archive[w]) :
        i < idx[w] /\ i \notin unread[w] /\ IsMdEntry(archive[w][i].Name)}

\* Every check of a link of the file at path was ok (e-mail links are);
\* so it is for a file without link matches.
AllChecksOk(w, path) ==
    \A k \in 1..Len(outs[w]) : outs[w][k].call.path = path => outs[w][k].ok

\* C17: every FileReport in MdFileList holds at least one link and only
\* links with Succeed = false; a markdown file without link matches, or
\* whose links are all ok or e-mail, has no FileReport.
C17_FileReportsHoldFailures ==
    \A w \in Repos :
        /\ \A i \in 1..Len(MdFileList[w].files) :
              /\ Len(MdFileList[w].files[i].LinkList) >= 1
              /\ \A k \in 1..Len(MdFileList[w].files[i].LinkList) :
                    ~MdFileList[w].files[i].LinkList[k].Succeed
        /\ \A i \in FinishedMdEntries(w) :
              LET path == FileFullPath(archive[w][i].Name)
              IN  AllChecksOk(w, path) <=> path \notin ReportedPaths(MdFileList[w])

\* R.md has no link and N.md has a failing one: the list holds N.md only.
C17_Witness ==
    \E w \in Repos :
        /\ archive[w] = ArchOdd
        /\ pc[w] = "sent"
        /\ FinishedMdEntries(w) = {1, 2}
        /\ ReportedPaths(MdFileList[w]) = {FileFullPath(archive[w][2].Name)}
        /\ Len(MdFileList[w].files[1].LinkList) >= 1

(***************************************************************************)
(* C18                                                                     *)
(***************************************************************************)
\* The worker is past its extraction: zip.OpenReader failed, or the loop
\* over the entries and the cleanup are behind it.
LeftExtracting(w) ==
    \/ opened[w] = "failed"
    \/ opened[w] = "ok" /\ pc[w] \in {"final", "sent"}

\* C18: once a worker has left extraction, after all the entries or after
\* the archive failed to open, os.RemoveAll of its directory has been
\* called; so it has been before the report is sent.
C18_CleanupOnLeavingExtraction ==
    \A w \in Repos : LeftExtracting(w) => cleaned[w]

(***************************************************************************)
(* C19                                                                     *)
(***************************************************************************)
\* C19 as stated: in every state, MdFileList is non-nil exactly when
\* AllLinksOK is false.
C19_ListNonNilIffFlagFalse ==
    \A w \in Repos : ~MdFileList[w].isNil <=> ~AllLinksOK[w]

\* The worker is inside the loop over the links of a file, main.go:216-225.
InLinkLoop(w) == pc[w] \in {"link", "retry"}

\* C19, amended: AllLinksOK is false exactly when a failing link is
\* recorded, in MdFileList or in the links of the file being read; so a
\* non-nil MdFileList always comes with AllLinksOK false, and outside the
\* loop over a file's links, the final State decision included, MdFileList
\* is non-nil exactly when AllLinksOK is false.
C19_ListNonNilIffFlagFalseBetweenFiles ==
    \A w \in Repos :
        /\ ~AllLinksOK[w] <=> (~MdFileList[w].isNil \/ links[w] /= <<>>)
        /\ ~MdFileList[w].isNil => ~AllLinksOK[w]
        /\ ~InLinkLoop(w) => (~MdFileList[w].isNil <=> ~AllLinksOK[w])
        /\ pc[w] = "final" => ~(~MdFileList[w].isNil /\ AllLinksOK[w])

\* At the final State decision after a file with a good link and a failing
\* one: the list is non-nil and the flag is false.
C19_Witness ==
    \E w \in Repos :
        /\ pc[w] = "final"
        /\ ~MdFileList[w].isNil
        /\ ~AllLinksOK[w]
        /\ \E k \in 1..Len(outs[w]) : outs[w][k].ok

(***************************************************************************)
(* C20                                                                     *)
(***************************************************************************)
\* C20: a worker sends at most one report, the channel never holds more
\* reports than workers were started, and a worker that has reached its send
\* can always perform it: the buffer has room, whether the coordinator is
\* still starting workers or is receiving.
C20_SendNeverBlocks ==
    /\ Len(reports) <= ChannelCap(NumRepos)
    /\ \A w \in Repos :
          /\ Cardinality(ReportsOf(w)) <= 1
          /\ Cardinality(ReportsOf(w)) = 1 <=> pc[w] = "sent"
          /\ (proc = "running" /\ pc[w] = "final") => ENABLED SendReport(w)

\* A report is in the buffer while the coordinator is still starting
\* workers, and its worker is past the send.
C20_Witness ==
    \E w \in Repos :
        /\ mainpc = "spawn"
        /\ pc[w] = "sent"
        /\ Len(reports) = 1
        /\ reports[1].Repository = w

=============================================================================
